---- MODULE Spec2Model ----
(***************************************************************************)
(* A model of the game-state core of src/learn/tetris.py: the shape        *)
(* catalogue, Piece.get_cells, valid_space, create_grid, clear_rows and    *)
(* the frame loop of main() (events, gravity, lock and spawn, scoring).    *)
(* Rendering is left out: it reads the state and never writes it.          *)
(*                                                                         *)
(* Time is counted in hundredths of a second, so fall_speed is the integer *)
(* max(5, 80 - 7 * (level - 1)) for the source's max(0.05, 0.8 - ...).     *)
(***************************************************************************)
EXTENDS Integers, Sequences, FiniteSets, TLC

\* ------------------------------------------------------------ constants

COLS == 10

ROWS == 20

BLACK == "BLACK"

COLORS == <<"cyan", "blue", "orange", "yellow", "green", "purple", "red">>

\* SHAPES[i + 1] is the source's SHAPES[i]; a row is a sequence of characters.
SHAPES ==
  << << <<".", ".", ".", ".">>,
        <<"I", "I", "I", "I">>,
        <<".", ".", ".", ".">>,
        <<".", ".", ".", ".">> >>,
     << <<"J", ".", ".">>,
        <<"J", "J", "J">>,
        <<".", ".", ".">> >>,
     << <<".", ".", "L">>,
        <<"L", "L", "L">>,
        <<".", ".", ".">> >>,
     << <<"O", "O">>,
        <<"O", "O">> >>,
     << <<".", "S", "S">>,
        <<"S", "S", ".">>,
        <<".", ".", ".">> >>,
     << <<".", "T", ".">>,
        <<"T", "T", "T">>,
        <<".", ".", ".">> >>,
     << <<"Z", "Z", ".">>,
        <<".", "Z", "Z">>,
        <<".", ".", ".">> >> >>

\* Shape indices, as the source's range(len(SHAPES_ROT)).
Kinds == 0 .. (Len(SHAPES) - 1)

\* ------------------------------------------------- rotations_from_pattern

\* The pattern embedded in a 4x4 matrix of characters, indexed from 0.
Padded(pattern) ==
  [r \in 0 .. 3 |->
     [c \in 0 .. 3 |->
        IF r < Len(pattern) /\ c < Len(pattern[r + 1])
          THEN pattern[r + 1][c + 1]
          ELSE "."]]

\* zip(*mat[::-1]): the new row r is the old column r read from the bottom up.
Rotate90(mat) == [r \in 0 .. 3 |-> [c \in 0 .. 3 |-> mat[3 - c][r]]]

\* Tuple order of Python on (r, c) pairs.
PairLess(p, q) == p[1] < q[1] \/ (p[1] = q[1] /\ p[2] < q[2])

RECURSIVE SortedPairs(_)
SortedPairs(S) ==
  IF S = {} THEN << >>
  ELSE LET m == CHOOSE p \in S : \A q \in S \ {p} : PairLess(p, q)
       IN  <<m>> \o SortedPairs(S \ {m})

\* The sorted coordinate list of one orientation, left where the matrix has it.
NormStateUnshifted(mat) ==
  SortedPairs({p \in (0 .. 3) \X (0 .. 3) : mat[p[1]][p[2]] # "."})

\* The normalised, sorted coordinate list of one orientation.
NormState(mat) ==
  LET coords == {p \in (0 .. 3) \X (0 .. 3) : mat[p[1]][p[2]] # "."}
      min_r  == CHOOSE a \in {p[1] : p \in coords} : \A p \in coords : a <= p[1]
      min_c  == CHOOSE a \in {p[2] : p \in coords} : \A p \in coords : a <= p[2]
  IN  SortedPairs({<<p[1] - min_r, p[2] - min_c>> : p \in coords})

InSeq(e, s) == \E i \in 1 .. Len(s) : s[i] = e

RECURSIVE RotStates(_, _, _)
RotStates(mat, n, states) ==
  IF n = 0 THEN states
  ELSE LET norm == NormState(mat)
       IN  RotStates(Rotate90(mat), n - 1,
                     IF InSeq(norm, states) THEN states ELSE Append(states, norm))

\* The states of three orientations only.
rotations_from_three(pattern) == RotStates(Padded(pattern), 3, << >>)

rotations_from_pattern(pattern) == RotStates(Padded(pattern), 4, << >>)

\* SHAPES_ROT[i + 1] is the source's SHAPES_ROT[i]; a state is a sequence of
\* (r, c) offsets and the source's states[rot] is SHAPES_ROT[i + 1][rot + 1].
SHAPES_ROT == [i \in 1 .. Len(SHAPES) |-> rotations_from_pattern(SHAPES[i])]

\* ------------------------------------------------------------------ Piece

\* Piece.__init__: states and color are functions of shape_idx.
Piece(x, y, shape_idx) == [x |-> x, y |-> y, shape_idx |-> shape_idx, rot |-> 0]

States(piece) == SHAPES_ROT[piece.shape_idx + 1]

Color(piece) == COLORS[piece.shape_idx + 1]

\* The cells in the order the loop of get_cells appends them: <<column, row>>.
get_cells(piece) ==
  LET st == States(piece)[piece.rot + 1]
  IN  [i \in 1 .. Len(st) |-> <<piece.x + st[i][2], piece.y + st[i][1]>>]

\* ------------------------------------------------------------------ board

\* locked is a function from a set of <<x, y>> keys to colors (the dict).
create_grid(locked) ==
  [r \in 0 .. (ROWS - 1) |->
     [c \in 0 .. (COLS - 1) |->
        IF <<c, r>> \in DOMAIN locked THEN locked[<<c, r>>] ELSE BLACK]]

\* A test that looks a cell up in locked whatever its row.
valid_space_any_row(piece, locked) ==
  LET cells == get_cells(piece)
  IN  \A i \in 1 .. Len(cells) :
        /\ ~(cells[i][1] < 0 \/ cells[i][1] >= COLS \/ cells[i][2] >= ROWS)
        /\ ~(cells[i] \in DOMAIN locked)

valid_space(piece, locked) ==
  LET cells == get_cells(piece)
  IN  \A i \in 1 .. Len(cells) :
        /\ ~(cells[i][1] < 0 \/ cells[i][1] >= COLS \/ cells[i][2] >= ROWS)
        /\ ~(cells[i][2] >= 0 /\ cells[i] \in DOMAIN locked)

check_lost(locked) == \E k \in DOMAIN locked : k[2] < 1

\* Line 136-139: the spawn placement of a piece of kind idx.
SpawnPiece(idx) == Piece(COLS \div 2 - 2, -1, idx)

\* ------------------------------------------------------------- clear_rows

RowFull(grid, r) == \A c \in 0 .. (COLS - 1) : grid[r][c] # BLACK

\* Lines 147-149: del locked[(c, r)] for every column c of the grid.
DeleteRow(locked, r) ==
  [k \in {q \in DOMAIN locked : ~(q[2] = r /\ q[1] \in 0 .. (COLS - 1))} |-> locked[k]]

\* Lines 154-155 for the keys of one row y: pop each and store it one row
\* lower, overwriting whatever is stored there.
MoveRowDown(locked, y) ==
  LET src == {k \in DOMAIN locked : k[2] = y}
      dst == {<<k[1], y + 1>> : k \in src}
  IN  [k \in (DOMAIN locked \ src) \cup dst |->
         IF k \in dst THEN locked[<<k[1], y>>] ELSE locked[k]]

\* Lines 151-155: the keys above row r, taken by descending row.
RECURSIVE ShiftLoop(_, _)
ShiftLoop(locked, ys) ==
  IF ys = {} THEN locked
  ELSE LET y == CHOOSE a \in ys : \A b \in ys : b <= a
       IN  ShiftLoop(MoveRowDown(locked, y), ys \ {y})

\* A shift without the test y < r of line 153.
ShiftDownAll(locked, r) == ShiftLoop(locked, {k[2] : k \in DOMAIN locked})

ShiftDown(locked, r) ==
  ShiftLoop(locked, {k[2] : k \in {q \in DOMAIN locked : q[2] < r}})

\* Lines 143-155: rows from r down to 0; fullness is read from the grid
\* argument, deletions and shifts are applied to locked.
RECURSIVE ClearLoop(_, _, _)
ClearLoop(r, grid, st) ==
  IF r < 0 THEN st
  ELSE IF RowFull(grid, r)
    THEN ClearLoop(r - 1, grid,
                   [locked  |-> ShiftDown(DeleteRow(st.locked, r), r),
                    cleared |-> st.cleared + 1])
    ELSE ClearLoop(r - 1, grid, st)

\* The result: the dict as mutated, and the returned count.
clear_rows(grid, locked) ==
  ClearLoop(ROWS - 1, grid, [locked |-> locked, cleared |-> 0])

\* ------------------------------------------------------------ game state

VARIABLES
  locked_positions,      \* dict (x, y) -> color
  grid,                  \* the last create_grid snapshot held by main
  current_piece,
  next_piece,
  change_piece,
  running,
  paused,
  fall_time,             \* hundredths of a second
  fall_speed,            \* hundredths of a second
  level,
  score,
  lines_cleared_total,
  cleared,               \* the last value returned by clear_rows
  kicked,                \* the local of lines 262-269 (FALSE until first set)
  dx,                    \* the loop variable of line 263 (0 until first set)
  pc,                    \* position in the frame, or in the clear_rows call
  frame,                 \* frames completed
  nev,                   \* events taken from the queue so far
  bounded,               \* TRUE in a run cut after MaxFrames and MaxEvents
  ret                    \* the value returned by a call made on its own

vars ==
  <<locked_positions, grid, current_piece, next_piece, change_piece, running,
    paused, fall_time, fall_speed, level, score, lines_cleared_total, cleared,
    kicked, dx, pc, frame, nev, bounded, ret>>

\* Frames executed by one bounded run of the model.
MaxFrames == 2

\* Events delivered by pygame.event.get() during one bounded run.
MaxEvents == 2

\* Values of clock.tick(FPS) / 1000.0, in hundredths of a second.
Dts == {40, 80}

EmptyBoard == [k \in {} |-> BLACK]

\* Line 233.
FallSpeed(lvl) ==
  LET v == 80 - (lvl - 1) * 7 IN IF v > 5 THEN v ELSE 5

\* A level that forgets the base of 1.
LevelForNoBase(total) == total \div 10

\* Line 303.
LevelFor(total) == total \div 10 + 1

\* ------------------------------------------------------------- positions
\* The frame loop is explored from the position main() constructs and from
\* positions of later play.  Each later position is given with a play that
\* reaches it; "place k at x" stands for: rotate at spawn height, walk to
\* column x, hard drop.

Rect(x0, x1, y0, y1, color) == [k \in (x0 .. x1) \X (y0 .. y1) |-> color]

At(idx, x, y, rot) == [x |-> x, y |-> y, shape_idx |-> idx, rot |-> rot]

\* A position at the top of a frame: the board, the current piece, the kind
\* of the next piece, then score, lines_cleared_total, level and the last
\* count of clear_rows.  A piece at its spawn placement has fall_time 0 (the
\* gravity step that locked its predecessor reset it); a piece that was
\* walked has spent a frame of 40 without a gravity step.
Position(board, piece, nxt, sc, total, lvl, last) ==
  [board |-> board, piece |-> piece, nxt |-> nxt, score |-> sc,
   lines |-> total, level |-> lvl, cleared |-> last,
   fall_time |-> IF piece = SpawnPiece(piece.shape_idx) THEN 0 ELSE 40]

\* Nine O placed at x = 4, nine at x = 6, then one flat I placed at x = 4.
TallBoard == Rect(4, 7, 2, 19, "yellow") @@ Rect(4, 7, 1, 1, "cyan")

\* Four upright I placed at x = 4.
PillarBoard == Rect(4, 4, 4, 19, "cyan")

\* Eight upright I placed at x = 0 .. 7.
WellBoard == Rect(0, 7, 16, 19, "cyan")

\* Nine upright I placed at x = 0 .. 8.
NineBoard == Rect(0, 8, 16, 19, "cyan")

\* NineBoard, an upright I at x = 9 (4 rows, +800), an upright I at x = 0
\* (2 rows, +300), one at x = 1 (1 row, +100), then one at each x = 2 .. 8.
CrossBoard == Rect(0, 8, 17, 19, "cyan") @@ Rect(1, 8, 16, 16, "cyan")

\* Three layers of nine upright I at x = 0 .. 8, then an upright I at x = 9
\* (4 rows, +800).
StaleBoard == Rect(0, 8, 12, 17, "cyan") @@ Rect(0, 9, 18, 19, "cyan")

Positions ==
  \* lines 211-225: the position after construction
  {Position(EmptyBoard, SpawnPiece(k), n, 0, 0, 1, 0) : k \in Kinds, n \in Kinds}
  \cup
  \* a new piece over the tall stack
  {Position(TallBoard, SpawnPiece(k), n, 0, 0, 1, 0) : k \in Kinds, n \in Kinds}
  \cup
  \* a T or an L walked right over the tall stack
  {Position(TallBoard, At(5, x, -1, 0), 1, 0, 0, 1, 0) : x \in {5, 6, 7}}
  \cup
  {Position(TallBoard, At(2, 5, -1, 0), 1, 0, 0, 1, 0)}
  \cup
  \* a T walked one column right and lowered three rows beside the pillar
  {Position(PillarBoard, At(5, 4, 2, 0), 1, 0, 0, 1, 0)}
  \cup
  \* an upright J, or an O, walked over the two-column well
  {Position(WellBoard, At(1, 8, -1, 1), 0, 0, 0, 1, 0),
   Position(WellBoard, At(3, 8, -1, 0), 0, 0, 0, 1, 0)}
  \cup
  \* an upright I walked over the one-column well
  {Position(NineBoard, At(0, 9, -1, 1), 0, 0, 0, 1, 0),
   Position(CrossBoard, At(0, 9, -1, 1), 0, 1200, 7, 1, 0),
   Position(StaleBoard, At(0, 9, -1, 1), 0, 800, 4, 1, 4)}

\* The top of a frame at position p, in a run that is cut (cut = TRUE) or not.
Start(p, cut) ==
  /\ locked_positions = p.board
  /\ grid = create_grid(p.board)
  /\ current_piece = p.piece
  /\ next_piece = SpawnPiece(p.nxt)
  /\ change_piece = FALSE
  /\ running = TRUE
  /\ paused = FALSE
  /\ fall_time = p.fall_time
  /\ fall_speed = FallSpeed(p.level)
  /\ level = p.level
  /\ score = p.score
  /\ lines_cleared_total = p.lines
  /\ cleared = p.cleared
  /\ kicked = FALSE
  /\ dx = 0
  /\ pc = "tick"
  /\ frame = 0
  /\ nev = 0
  /\ bounded = cut
  /\ ret = FALSE

Init == \E p \in Positions : Start(p, TRUE)

\* A clock that runs while the game is paused.
TickWhilePaused(dt) ==
  /\ pc = "tick"
  /\ running
  /\ bounded => frame < MaxFrames
  /\ fall_time' = fall_time + dt
  /\ fall_speed' = FallSpeed(level)
  /\ pc' = "events"
  /\ UNCHANGED <<locked_positions, grid, current_piece, next_piece, change_piece,
                 running, paused, level, score, lines_cleared_total, cleared,
                 kicked, dx, frame, nev, bounded, ret>>

\* Lines 227-233: the loop test, the clock and the speed.
Tick(dt) ==
  /\ pc = "tick"
  /\ running
  /\ bounded => frame < MaxFrames
  /\ fall_time' = IF ~paused THEN fall_time + dt ELSE fall_time
  /\ fall_speed' = FallSpeed(level)
  /\ pc' = "events"
  /\ UNCHANGED <<locked_positions, grid, current_piece, next_piece, change_piece,
                 running, paused, level, score, lines_cleared_total, cleared,
                 kicked, dx, frame, nev, bounded, ret>>

\* What every event handler leaves alone.
KeyFrame ==
  /\ pc = "events"
  /\ bounded => nev < MaxEvents
  /\ nev' = IF bounded THEN nev + 1 ELSE nev
  /\ UNCHANGED <<locked_positions, grid, next_piece, fall_time, fall_speed, level,
                 score, lines_cleared_total, cleared, frame, bounded, ret>>

\* Lines 236-242: pygame.QUIT or K_ESCAPE; the break leaves the event loop.
Quit ==
  /\ KeyFrame
  /\ running' = FALSE
  /\ pc' = "gravity"
  /\ UNCHANGED <<current_piece, change_piece, paused, kicked, dx>>

\* Lines 243-244: K_p; no branch of the key chain below matches K_p.
KeyPause ==
  /\ KeyFrame
  /\ paused' = ~paused
  /\ UNCHANGED <<current_piece, change_piece, running, kicked, dx, pc>>

\* A translation that is kept whatever valid_space says.
TryMoveUnchecked(piece, mx, my, locked) ==
  [piece EXCEPT !.x = piece.x + mx, !.y = piece.y + my]

\* A translation that is undone when the placement is not valid.
TryMove(piece, mx, my, locked) ==
  LET moved == [piece EXCEPT !.x = piece.x + mx, !.y = piece.y + my]
  IN  IF valid_space(moved, locked) THEN moved ELSE piece

\* A move left that restarts the fall accumulator.
KeyLeftResets ==
  /\ pc = "events"
  /\ bounded => nev < MaxEvents
  /\ nev' = IF bounded THEN nev + 1 ELSE nev
  /\ current_piece' = IF paused THEN current_piece
                      ELSE TryMove(current_piece, -1, 0, locked_positions)
  /\ fall_time' = IF paused THEN fall_time ELSE 0
  /\ UNCHANGED <<locked_positions, grid, next_piece, fall_speed, level, score,
                 lines_cleared_total, cleared, frame, bounded, ret,
                 change_piece, running, paused, kicked, dx, pc>>

\* Lines 246-249.
KeyLeft ==
  /\ KeyFrame
  /\ current_piece' = IF paused THEN current_piece
                      ELSE TryMove(current_piece, -1, 0, locked_positions)
  /\ UNCHANGED <<change_piece, running, paused, kicked, dx, pc>>

\* Lines 250-253.
KeyRight ==
  /\ KeyFrame
  /\ current_piece' = IF paused THEN current_piece
                      ELSE TryMove(current_piece, 1, 0, locked_positions)
  /\ UNCHANGED <<change_piece, running, paused, kicked, dx, pc>>

\* A soft drop that asks for the lock when the row below is not free.
KeyDownLocks ==
  /\ KeyFrame
  /\ current_piece' = IF paused THEN current_piece
                      ELSE TryMove(current_piece, 0, 1, locked_positions)
  /\ change_piece' =
       IF ~paused /\ TryMove(current_piece, 0, 1, locked_positions) = current_piece
         THEN TRUE ELSE change_piece
  /\ UNCHANGED <<running, paused, kicked, dx, pc>>

\* Lines 254-257.
KeyDown ==
  /\ KeyFrame
  /\ current_piece' = IF paused THEN current_piece
                      ELSE TryMove(current_piece, 0, 1, locked_positions)
  /\ UNCHANGED <<change_piece, running, paused, kicked, dx, pc>>

\* The offsets tried right side first.
KicksRightFirst == <<1, -1, 2, -2>>

\* Line 263: the wall-kick offsets in the order they are tried.
Kicks == <<-1, 1, -2, 2>>

\* Line 259.
Turned(piece) == [piece EXCEPT !.rot = (piece.rot + 1) % Len(States(piece))]

\* Lines 263-268: the index of the first offset that gives a valid placement
\* of the turned piece, 0 when none does.
FirstKick(turned, locked) ==
  LET ok == {i \in 1 .. Len(Kicks) :
               valid_space([turned EXCEPT !.x = turned.x + Kicks[i]], locked)}
  IN  IF ok = {} THEN 0 ELSE CHOOSE i \in ok : \A j \in ok : i <= j

\* Lines 259-270: the piece after a rotate intent.
RotatePiece(piece, locked) ==
  LET turned == Turned(piece)
      i      == FirstKick(turned, locked)
  IN  IF valid_space(turned, locked) THEN turned
      ELSE IF i # 0 THEN [turned EXCEPT !.x = turned.x + Kicks[i]]
      ELSE [turned EXCEPT !.rot = (turned.rot - 1) % Len(States(piece))]

\* Lines 258-270.
KeyUp ==
  /\ KeyFrame
  /\ IF paused
       THEN UNCHANGED <<current_piece, kicked, dx>>
       ELSE /\ current_piece' = RotatePiece(current_piece, locked_positions)
            /\ IF valid_space(Turned(current_piece), locked_positions)
                 THEN UNCHANGED <<kicked, dx>>
                 ELSE LET i == FirstKick(Turned(current_piece), locked_positions)
                      IN  /\ kicked' = (i # 0)
                          /\ dx' = IF i # 0 THEN Kicks[i] ELSE Kicks[Len(Kicks)]
  /\ UNCHANGED <<change_piece, running, paused, pc>>

\* Lines 273-275: down while valid, then one row back up.
RECURSIVE HardDrop(_, _)
HardDrop(piece, locked) ==
  IF valid_space(piece, locked)
    THEN HardDrop([piece EXCEPT !.y = piece.y + 1], locked)
    ELSE [piece EXCEPT !.y = piece.y - 1]

\* Lines 271-276.
KeySpace ==
  /\ KeyFrame
  /\ current_piece' = IF paused THEN current_piece
                      ELSE HardDrop(current_piece, locked_positions)
  /\ change_piece' = IF paused THEN change_piece ELSE TRUE
  /\ UNCHANGED <<running, paused, kicked, dx, pc>>

\* A gravity step that waits until the accumulator is past the interval.
GravityPastInterval ==
  /\ pc \in {"events", "gravity"}
  /\ pc' = "lock"
  /\ IF ~paused /\ fall_time > fall_speed
       THEN LET moved == [current_piece EXCEPT !.y = current_piece.y + 1]
            IN  /\ fall_time' = 0
                /\ IF valid_space(moved, locked_positions)
                     THEN current_piece' = moved /\ UNCHANGED change_piece
                     ELSE current_piece' = current_piece /\ change_piece' = TRUE
       ELSE UNCHANGED <<fall_time, current_piece, change_piece>>
  /\ UNCHANGED <<locked_positions, grid, next_piece, running, paused, fall_speed,
                 level, score, lines_cleared_total, cleared, kicked, dx, frame, nev,
                 bounded, ret>>

\* Lines 278-283, entered when the event queue is exhausted or after a break.
Gravity ==
  /\ pc \in {"events", "gravity"}
  /\ pc' = "lock"
  /\ IF ~paused /\ fall_time >= fall_speed
       THEN LET moved == [current_piece EXCEPT !.y = current_piece.y + 1]
            IN  /\ fall_time' = 0
                /\ IF valid_space(moved, locked_positions)
                     THEN current_piece' = moved /\ UNCHANGED change_piece
                     ELSE current_piece' = current_piece /\ change_piece' = TRUE
       ELSE UNCHANGED <<fall_time, current_piece, change_piece>>
  /\ UNCHANGED <<locked_positions, grid, next_piece, running, paused, fall_speed,
                 level, score, lines_cleared_total, cleared, kicked, dx, frame, nev,
                 bounded, ret>>

\* Line 292: locked_positions[(x, y)] = color.
Put(locked, k, v) == [q \in DOMAIN locked \cup {k} |-> IF q = k THEN v ELSE locked[q]]

\* A lock loop that writes the cells above the top as well.
RECURSIVE LockLoopWritesAbove(_, _, _, _)
LockLoopWritesAbove(cells, i, color, st) ==
  IF i > Len(cells) THEN st
  ELSE LockLoopWritesAbove(cells, i + 1, color,
         [st EXCEPT !.locked = Put(st.locked, cells[i], color),
                    !.running = IF cells[i][2] < 0 THEN FALSE ELSE @])

\* A lock loop that skips a cell above the top and goes on with the rest.
RECURSIVE LockLoopNoBreak(_, _, _, _)
LockLoopNoBreak(cells, i, color, st) ==
  IF i > Len(cells) THEN st
  ELSE IF cells[i][2] < 0
    THEN LockLoopNoBreak(cells, i + 1, color, [st EXCEPT !.running = FALSE])
  ELSE LockLoopNoBreak(cells, i + 1, color,
                       [st EXCEPT !.locked = Put(st.locked, cells[i], color)])

\* Lines 287-292: the cells in get_cells order; a cell above the top stops
\* the loop and clears running.
RECURSIVE LockLoop(_, _, _, _)
LockLoop(cells, i, color, st) ==
  IF i > Len(cells) THEN st
  ELSE IF cells[i][2] < 0 THEN [st EXCEPT !.running = FALSE]
  ELSE LockLoop(cells, i + 1, color,
                [st EXCEPT !.locked = Put(st.locked, cells[i], color)])

\* Lines 286-295; without change_piece the frame ends here (line 227 next).
LockPiece ==
  /\ pc = "lock"
  /\ IF change_piece
       THEN LET lk == LockLoop(get_cells(current_piece), 1, Color(current_piece),
                               [locked |-> locked_positions, running |-> running])
            IN  /\ locked_positions' = lk.locked
                /\ running' = lk.running
                /\ current_piece' = next_piece
                /\ \E idx \in Kinds : next_piece' = SpawnPiece(idx)
                /\ change_piece' = FALSE
                /\ pc' = "clear"
                /\ UNCHANGED frame
       ELSE /\ pc' = IF running THEN "tick" ELSE "over"
            /\ frame' = IF bounded THEN frame + 1 ELSE frame
            /\ UNCHANGED <<locked_positions, current_piece, next_piece,
                           change_piece, running>>
  /\ UNCHANGED <<grid, paused, fall_time, fall_speed, level, score,
                 lines_cleared_total, cleared, kicked, dx, nev, bounded, ret>>

\* A score table whose entry for four rows is that of the fallback formula.
ScoreForFlat(n) == n * 200

\* Line 302.
ScoreFor(n) ==
  IF n = 1 THEN 100 ELSE IF n = 2 THEN 300 ELSE IF n = 3 THEN 500
  ELSE IF n = 4 THEN 800 ELSE n * 200

\* Lines 297-304, then the loop test of line 227.
ClearAndScore ==
  /\ pc = "clear"
  /\ LET res == clear_rows(create_grid(locked_positions), locked_positions)
     IN  /\ locked_positions' = res.locked
         /\ cleared' = res.cleared
         /\ grid' = create_grid(res.locked)
         /\ IF res.cleared > 0
              THEN /\ lines_cleared_total' = lines_cleared_total + res.cleared
                   /\ score' = score + ScoreFor(res.cleared)
                   /\ level' = LevelFor(lines_cleared_total + res.cleared)
              ELSE UNCHANGED <<lines_cleared_total, score, level>>
  /\ pc' = IF running THEN "tick" ELSE "over"
  /\ frame' = IF bounded THEN frame + 1 ELSE frame
  /\ UNCHANGED <<current_piece, next_piece, change_piece, running, paused,
                 fall_time, fall_speed, kicked, dx, nev, bounded, ret>>

Next ==
  \/ \E dt \in Dts : Tick(dt)
  \/ Quit
  \/ KeyPause
  \/ KeyLeft
  \/ KeyRight
  \/ KeyDown
  \/ KeyUp
  \/ KeySpace
  \/ Gravity
  \/ LockPiece
  \/ ClearAndScore

Spec == Init /\ [][Next]_vars

\* ------------------------------------------------- the life of one piece
\* Frames without end, each with any number of events, from the top of a
\* frame until the lock sequence has taken the current piece or the session
\* has ended.

\* The position after construction for each kind (the next piece plays no
\* part before the lock), and the O walked over the two-column well.
LivePositions ==
  {Position(EmptyBoard, SpawnPiece(k), 0, 0, 0, 1, 0) : k \in Kinds}
  \cup
  {Position(WellBoard, At(3, 8, -1, 0), 0, 0, 0, 1, 0)}

LiveInit == \E p \in LivePositions : Start(p, FALSE)

LiveNext ==
  \/ \E dt \in Dts : Tick(dt)
  \/ Quit
  \/ KeyPause
  \/ KeyLeft
  \/ KeyRight
  \/ KeyDown
  \/ KeyUp
  \/ KeySpace
  \/ Gravity
  \/ LockPiece

\* The loop goes on while running holds (line 227), the queue of a frame is
\* finite, so its gravity test comes (line 278), and the lock test follows
\* it (line 286).
LiveFair ==
  /\ WF_vars(\E dt \in Dts : Tick(dt))
  /\ WF_vars(Gravity)
  /\ WF_vars(LockPiece)

SpecLive == LiveInit /\ [][LiveNext]_vars /\ LiveFair

\* ------------------------------------------------- clear_rows on its own
\* clear_rows applied once to the snapshot of each board of a bounded set:
\* the lowest MaxStack rows each hold one of RowPatterns, and a lone cell may
\* sit in the top row.

\* Rows of the input board that may hold cells, counted from the floor.
MaxStack == 4

RowPatterns ==
  {{}, 0 .. (COLS - 1), 0 .. (COLS - 2), 1 .. (COLS - 1), {0, COLS - 1}}

CellColor(k) == COLORS[((k[1] + 3 * k[2]) % Len(COLORS)) + 1]

StackRows == (ROWS - MaxStack) .. (ROWS - 1)

ClearBoards ==
  {[k \in {q \in (0 .. (COLS - 1)) \X StackRows : q[1] \in f[q[2]]}
          \cup (IF top THEN {<<5, 0>>} ELSE {}) |-> CellColor(k)] :
     f \in [StackRows -> RowPatterns], top \in BOOLEAN}

ClearInit ==
  /\ locked_positions \in ClearBoards
  /\ grid = create_grid(locked_positions)
  /\ current_piece = SpawnPiece(0)
  /\ next_piece = SpawnPiece(0)
  /\ change_piece = FALSE
  /\ running = TRUE
  /\ paused = FALSE
  /\ fall_time = 0
  /\ fall_speed = 80
  /\ level = 1
  /\ score = 0
  /\ lines_cleared_total = 0
  /\ cleared = 0
  /\ kicked = FALSE
  /\ dx = 0
  /\ pc = "call"
  /\ frame = 0
  /\ nev = 0
  /\ bounded = TRUE
  /\ ret = FALSE

\* Line 298 alone: cleared = clear_rows(grid, locked_positions).
ClearCall ==
  /\ pc = "call"
  /\ LET res == clear_rows(grid, locked_positions)
     IN  /\ locked_positions' = res.locked
         /\ cleared' = res.cleared
  /\ pc' = "ret"
  /\ UNCHANGED <<grid, current_piece, next_piece, change_piece, running, paused,
                 fall_time, fall_speed, level, score, lines_cleared_total,
                 kicked, dx, frame, nev, bounded, ret>>

SpecClear == ClearInit /\ [][ClearCall]_vars

\* ------------------------------------------- the piece functions on their own
\* valid_space, the rotate step and get_cells applied once to each piece of a
\* bounded set over each board of a small set.

\* Columns from two left of the wall to one right of it, rows from two above
\* the top to one below the floor.
PieceXs == (0 - 2) .. COLS

PieceYs == (0 - 2) .. ROWS

\* Every kind in every rotation state at every placement of PieceXs, PieceYs.
Pieces ==
  {p \in [x : PieceXs, y : PieceYs, shape_idx : Kinds, rot : 0 .. 3] :
     p.rot < Len(States(p))}

\* A dict with keys above the top row, as a caller may pass.
AboveBoard == Rect(0, COLS - 1, 0 - 2, 0 - 1, "red")

PieceBoards == {EmptyBoard, TallBoard, WellBoard, AboveBoard}

PieceInit ==
  /\ locked_positions \in PieceBoards
  /\ grid = create_grid(locked_positions)
  /\ current_piece \in Pieces
  /\ next_piece = SpawnPiece(0)
  /\ change_piece = FALSE
  /\ running = TRUE
  /\ paused = FALSE
  /\ fall_time = 0
  /\ fall_speed = 80
  /\ level = 1
  /\ score = 0
  /\ lines_cleared_total = 0
  /\ cleared = 0
  /\ kicked = FALSE
  /\ dx = 0
  /\ pc = "call"
  /\ frame = 0
  /\ nev = 0
  /\ bounded = TRUE
  /\ ret = FALSE

\* What a call on its own leaves alone.
PieceCallFrame ==
  /\ pc = "call"
  /\ UNCHANGED <<locked_positions, grid, current_piece, next_piece, change_piece,
                 running, paused, fall_time, fall_speed, level, score,
                 lines_cleared_total, cleared, kicked, dx, frame, nev, bounded>>

\* Lines 122-128: valid_space(current_piece, locked_positions).
ValidCall ==
  /\ PieceCallFrame
  /\ ret' = valid_space(current_piece, locked_positions)
  /\ pc' = "valid"

\* Line 259 four times over, on a copy of the piece.
TurnCall ==
  /\ PieceCallFrame
  /\ ret' = Turned(Turned(Turned(Turned(current_piece))))
  /\ pc' = "turned"

\* Lines 106-112: current_piece.get_cells().
CellsCall ==
  /\ PieceCallFrame
  /\ ret' = get_cells(current_piece)
  /\ pc' = "cells"

PieceNext ==
  \/ ValidCall
  \/ TurnCall
  \/ CellsCall

SpecPiece == PieceInit /\ [][PieceNext]_vars

\* ----------------------------------------------------------------- claims

\* The cells of the board the grid is a snapshot of.
GridCells == {k \in (0 .. (COLS - 1)) \X (0 .. (ROWS - 1)) : grid[k[2]][k[1]] # BLACK}

GridFullRows == {r \in 0 .. (ROWS - 1) : RowFull(grid, r)}

\* The number of full rows of the grid below row r.
FullBelow(r) == Cardinality({f \in GridFullRows : f > r})

\* The cells of the grid outside its full rows.
GridKept == {k \in GridCells : k[2] \notin GridFullRows}

\* C1: after clear_rows on the snapshot of any board, the count returned is
\* the number of full rows, the cells of the full rows are gone, and every
\* other cell sits lower by the number of full rows that were below it, with
\* its column and color.
C1_ClearRowsExact ==
  pc = "ret" =>
    /\ cleared = Cardinality(GridFullRows)
    /\ DOMAIN locked_positions = {<<k[1], k[2] + FullBelow(k[2])>> : k \in GridKept}
    /\ \A k \in GridKept :
         locked_positions[<<k[1], k[2] + FullBelow(k[2])>>] = grid[k[2]][k[1]]

\* C2: after clear_rows on a board with exactly one full row r, the count is
\* 1, the cells below r are where they were, the cells above r are one row
\* lower with their column and color, and COLS cells fewer are locked.
C2_OneFullRow ==
  (pc = "ret" /\ Cardinality(GridFullRows) = 1) =>
    LET r     == CHOOSE f \in GridFullRows : TRUE
        above == {k \in GridCells : k[2] < r}
        below == {k \in GridCells : k[2] > r}
    IN  /\ cleared = 1
        /\ DOMAIN locked_positions = below \cup {<<k[1], k[2] + 1>> : k \in above}
        /\ \A k \in below : locked_positions[k] = grid[k[2]][k[1]]
        /\ \A k \in above : locked_positions[<<k[1], k[2] + 1>>] = grid[k[2]][k[1]]
        /\ Cardinality(DOMAIN locked_positions) = Cardinality(GridCells) - COLS

\* A call that returned, on a board whose only full row has cells above it
\* (among them the cell of the top row) and cells below it.
C2_Witness ==
  /\ pc = "ret"
  /\ Cardinality(GridFullRows) = 1
  /\ \E r \in GridFullRows :
       /\ \E k \in GridCells : k[2] = r - 1
       /\ \E k \in GridCells : k[2] = 0
       /\ \E k \in GridCells : k[2] > r

HasCellAboveTop(piece) ==
  \E i \in 1 .. Len(get_cells(piece)) : get_cells(piece)[i][2] < 0

\* C3: a lock of a piece with a cell at row < 0 clears running and leaves the
\* locked cells exactly as they were.
C3_LockAboveTopDiscards ==
  [][(pc = "lock" /\ change_piece /\ HasCellAboveTop(current_piece)) =>
       (running' = FALSE /\ locked_positions' = locked_positions)]_vars

\* The lock loop has just ended the session in the first frame over the tall
\* stack and left it as it was.  No event was delivered, so no quit ended it
\* and gravity alone asked for the lock: the piece was at spawn height and
\* could not go down, which a flat I there can, so it was a piece with cells
\* at rows -1 and 0.
C3_Witness ==
  /\ pc = "clear"
  /\ ~running
  /\ nev = 0
  /\ frame = 0
  /\ locked_positions = TallBoard

\* C4: when the next frame is about to start, no locked cell has row < 1.
C4_NoTopRowCellWhilePlaying ==
  pc = "tick" => ~check_lost(locked_positions)

\* C5: when the next frame is about to start, the current piece is in a
\* valid placement.
C5_CurrentPieceValidWhilePlaying ==
  pc = "tick" => valid_space(current_piece, locked_positions)

\* The placement of the turned piece at column offset d is valid.
TurnedFits(d) ==
  valid_space([Turned(current_piece) EXCEPT !.x = current_piece.x + d],
              locked_positions)

TurnedAt(d) == [Turned(current_piece) EXCEPT !.x = current_piece.x + d]

\* C6: a rotate intent on an unpaused game gives the turned piece at the
\* first offset of 0, -1, +1, -2, +2 at which it fits, and leaves the piece
\* as it was when it fits at none.
C6_RotateKickOrder ==
  [][(KeyUp /\ ~paused) =>
       /\ TurnedFits(0) => current_piece' = TurnedAt(0)
       /\ (~TurnedFits(0) /\ TurnedFits(-1)) => current_piece' = TurnedAt(-1)
       /\ (~TurnedFits(0) /\ ~TurnedFits(-1) /\ TurnedFits(1)) =>
            current_piece' = TurnedAt(1)
       /\ (~TurnedFits(0) /\ ~TurnedFits(-1) /\ ~TurnedFits(1) /\ TurnedFits(-2)) =>
            current_piece' = TurnedAt(-2)
       /\ (~TurnedFits(0) /\ ~TurnedFits(-1) /\ ~TurnedFits(1) /\ ~TurnedFits(-2)
           /\ TurnedFits(2)) => current_piece' = TurnedAt(2)
       /\ (~TurnedFits(0) /\ ~TurnedFits(-1) /\ ~TurnedFits(1) /\ ~TurnedFits(-2)
           /\ ~TurnedFits(2)) => current_piece' = current_piece]_vars

\* Beside the pillar the T was turned and kicked one column left, where the
\* placement one column right was valid too.
C6_Witness ==
  /\ locked_positions = PillarBoard
  /\ kicked
  /\ dx = -1
  /\ current_piece = At(5, 3, 2, 1)
  /\ valid_space(At(5, 5, 2, 1), locked_positions)
  /\ ~valid_space(At(5, 4, 2, 1), locked_positions)

\* C7: a hard drop leaves the piece in a valid placement with the same column
\* and rotation and nothing valid one row lower, and from then until the
\* lock sequence of that frame the piece does not change.
C7_HardDropLocksInPlace ==
  [][/\ (KeySpace /\ ~paused) =>
          /\ current_piece'.x = current_piece.x
          /\ current_piece'.rot = current_piece.rot
          /\ valid_space(current_piece', locked_positions)
          /\ ~valid_space([current_piece' EXCEPT !.y = current_piece'.y + 1],
                          locked_positions)
     /\ (pc \in {"events", "gravity"} /\ change_piece) =>
          current_piece' = current_piece]_vars

\* C8: in a lock sequence that cleared k rows, k = 0 leaves score, total and
\* level alone; k = 1, 2, 3, 4 adds 100, 300, 500, 800 to score and k to the
\* total; level changes only when the total crosses a multiple of 10.
C8_ScoreTable ==
  [][pc = "clear" =>
       /\ cleared' = 0 =>
            UNCHANGED <<score, lines_cleared_total, level>>
       /\ cleared' = 1 =>
            score' = score + 100 /\ lines_cleared_total' = lines_cleared_total + 1
       /\ cleared' = 2 =>
            score' = score + 300 /\ lines_cleared_total' = lines_cleared_total + 2
       /\ cleared' = 3 =>
            score' = score + 500 /\ lines_cleared_total' = lines_cleared_total + 3
       /\ cleared' = 4 =>
            score' = score + 800 /\ lines_cleared_total' = lines_cleared_total + 4
       /\ level' # level =>
            lines_cleared_total' \div 10 # lines_cleared_total \div 10]_vars

\* The upright I has filled the one-column well of NineBoard: four rows
\* counted, 800 scored from 0.
C8_Witness ==
  /\ frame = 1
  /\ cleared = 4
  /\ score = 800
  /\ lines_cleared_total = 4
  /\ level = 1
  /\ locked_positions = Rect(0, 9, 18, 19, "cyan")

\* C9: the count returned by clear_rows is between 0 and 4.
C9_ClearedAtMostFour == cleared \in 0 .. 4

\* C10: level is floor(lines_cleared_total / 10) + 1, at least 1, and score
\* is not negative.
C10_LevelFormula ==
  /\ level = lines_cleared_total \div 10 + 1
  /\ level >= 1
  /\ score >= 0

\* A lock has taken the total from 7 to 10 and the level from 1 to 2.
C10_Witness ==
  /\ frame > 0
  /\ lines_cleared_total = 10
  /\ score = 1700
  /\ level = 2

\* The current piece one row lower.
Lowered == [current_piece EXCEPT !.y = current_piece.y + 1]

\* C11: a soft-drop intent on an unpaused game moves the piece down one row
\* when that placement is valid; when it is not, the piece keeps its position
\* and rotation; either way the intent leaves change_piece, the locked cells,
\* the score, the totals and the next piece as they were.
C11_SoftDropNeverLocks ==
  [][(KeyDown /\ ~paused) =>
       /\ valid_space(Lowered, locked_positions) => current_piece' = Lowered
       /\ ~valid_space(Lowered, locked_positions) => current_piece' = current_piece
       /\ UNCHANGED <<change_piece, locked_positions, next_piece, score, level,
                      lines_cleared_total, running, fall_time>>]_vars

\* The single event of the first frame beside the pillar has left the T where
\* it was, unpaused and with no lock asked for.  A move left or right and a
\* rotation (kicked one column left) all fit there and a hard drop asks for
\* the lock, so the event was a soft drop onto the pillar.
C11_Witness ==
  /\ pc = "events"
  /\ frame = 0
  /\ nev = 1
  /\ locked_positions = PillarBoard
  /\ current_piece = At(5, 4, 2, 0)
  /\ ~valid_space(Lowered, locked_positions)
  /\ ~change_piece
  /\ ~paused
  /\ running

\* C12: no lock is pending when a frame starts, so a frame that starts paused
\* and processes no pause toggle is made of steps taken with paused true and
\* change_piece false, none of them the row clear of a lock sequence; each
\* such step leaves the fall accumulator, the current piece, the next piece,
\* the locked cells, score, level and lines_cleared_total as they were.  A
\* pause toggle flips paused and leaves all of them as they were, so a second
\* toggle returns to playing with them intact.
C12_PausedFrameFrozen ==
  [][/\ pc = "tick" => ~change_piece
     /\ (paused /\ paused' /\ ~change_piece /\ pc # "clear") =>
          UNCHANGED <<fall_time, current_piece, next_piece, locked_positions,
                      score, level, lines_cleared_total>>
     /\ KeyPause =>
          /\ paused' = ~paused
          /\ UNCHANGED <<fall_time, current_piece, next_piece, locked_positions,
                         score, level, lines_cleared_total, change_piece>>]_vars

\* Two frames are over on the empty board, the game is paused, the piece is
\* where it spawned and the accumulator holds the 40 of one frame: the first
\* frame took 40 and the pause toggle, and the second frame started paused
\* and added nothing; the event that came after the toggle did nothing.
C12_Witness ==
  /\ pc = "tick"
  /\ frame = 2
  /\ nev = 2
  /\ paused
  /\ running
  /\ fall_time = 40
  /\ current_piece = SpawnPiece(5)
  /\ locked_positions = EmptyBoard

\* The (r, c) offsets of the rotation state of the current piece.
Offsets ==
  {States(current_piece)[current_piece.rot + 1][i] :
     i \in 1 .. Len(States(current_piece)[current_piece.rot + 1])}

\* The cell (column, row) of the current piece at offset o.
CellAt(o) == <<current_piece.x + o[2], current_piece.y + o[1]>>

\* C13: valid_space is false iff some occupied cell has column < 0, column
\* >= COLS or row >= ROWS, or some occupied cell with row >= 0 is a key of the
\* locked cells; a cell with row < 0 never makes the placement invalid by
\* itself, whether or not it is a key.
C13_ValidSpaceIff ==
  pc = "valid" =>
    /\ ret = FALSE <=>
         \E o \in Offsets :
           \/ CellAt(o)[1] < 0
           \/ CellAt(o)[1] >= COLS
           \/ CellAt(o)[2] >= ROWS
           \/ (CellAt(o)[2] >= 0 /\ CellAt(o) \in DOMAIN locked_positions)
    /\ (\A o \in Offsets :
          CellAt(o)[2] < 0 /\ CellAt(o)[1] \in 0 .. (COLS - 1)) => ret = TRUE

\* A placement found valid with one cell above the top that is a key of the
\* dict and one cell inside the grid.
C13_Witness ==
  /\ pc = "valid"
  /\ ret = TRUE
  /\ \E o \in Offsets : CellAt(o)[2] < 0 /\ CellAt(o) \in DOMAIN locked_positions
  /\ \E o \in Offsets : CellAt(o)[2] >= 0

\* C14: four rotate steps return the piece to its rotation index and to the
\* same occupied cells, and the number of states of its kind divides 4.
C14_FourTurnsIdentity ==
  pc = "turned" =>
    /\ ret.rot = current_piece.rot
    /\ get_cells(ret) = get_cells(current_piece)
    /\ 4 % Len(States(current_piece)) = 0

\* Four steps taken from the last of the four states of a J: the index has
\* wrapped to 0 on the way and one step alone changes the cells.
C14_Witness ==
  /\ pc = "turned"
  /\ current_piece.shape_idx = 1
  /\ current_piece.rot = 3
  /\ Len(States(current_piece)) = 4
  /\ get_cells(Turned(current_piece)) # get_cells(current_piece)
  /\ ret = current_piece

\* The number of filled cells of the pattern of a kind.
Filled(idx) ==
  Cardinality({p \in (1 .. Len(SHAPES[idx + 1])) \X (1 .. 4) :
                 /\ p[2] <= Len(SHAPES[idx + 1][p[1]])
                 /\ SHAPES[idx + 1][p[1]][p[2]] # "."})

\* C15: get_cells returns 4 coordinates, as many as the pattern has filled
\* cells, pairwise distinct, each (x + c, y + r) for an offset (r, c) of the
\* rotation state, and the least row offset and the least column offset are 0.
C15_CellsOfPiece ==
  pc = "cells" =>
    /\ Len(ret) = 4
    /\ Len(ret) = Filled(current_piece.shape_idx)
    /\ \A i, j \in 1 .. Len(ret) : i # j => ret[i] # ret[j]
    /\ \A i \in 1 .. Len(ret) : \E o \in Offsets : ret[i] = CellAt(o)
    /\ \A i \in 1 .. Len(ret) :
         ret[i][1] >= current_piece.x /\ ret[i][2] >= current_piece.y
    /\ \E i \in 1 .. Len(ret) : ret[i][1] = current_piece.x
    /\ \E i \in 1 .. Len(ret) : ret[i][2] = current_piece.y

\* The cells of an S in its second state, whose pattern starts one column
\* right of the matrix edge in its first row.
C15_Witness ==
  /\ pc = "cells"
  /\ current_piece = At(4, 3, 5, 1)
  /\ ret = <<<<3, 5>>, <<3, 6>>, <<4, 6>>, <<4, 7>>>>

\* The step that ends the event loop of a frame and makes the gravity test.
GravityTest == pc \in {"events", "gravity"} /\ pc' = "lock"

\* The cells of the current piece, as a set.
PieceCells == {get_cells(current_piece)[i] : i \in 1 .. Len(get_cells(current_piece))}

\* C16: at the gravity test of an unpaused frame, an accumulator that has
\* reached the interval is reset to 0 and the piece goes down one row if that
\* placement is valid; if it is not, the piece stays where it was and the lock
\* is asked for.  An accumulator below the interval leaves the piece, the
\* accumulator and change_piece alone.  A lock that was asked for runs before
\* the frame is over, on the piece where it stayed: its cells are written
\* unless one is above the top, and the next piece becomes current.
C16_GravityStep ==
  [][/\ (GravityTest /\ ~paused /\ fall_time >= fall_speed) =>
          /\ fall_time' = 0
          /\ valid_space(Lowered, locked_positions) =>
               current_piece' = Lowered /\ change_piece' = change_piece
          /\ ~valid_space(Lowered, locked_positions) =>
               current_piece' = current_piece /\ change_piece' = TRUE
     /\ (GravityTest /\ ~paused /\ fall_time < fall_speed) =>
          UNCHANGED <<current_piece, change_piece, fall_time>>
     /\ (pc = "lock" /\ change_piece) =>
          /\ pc' = "clear"
          /\ frame' = frame
          /\ current_piece' = next_piece
          /\ change_piece' = FALSE
          /\ ~HasCellAboveTop(current_piece) =>
               /\ DOMAIN locked_positions' = DOMAIN locked_positions \cup PieceCells
               /\ \A k \in PieceCells : locked_positions'[k] = Color(current_piece)]_vars

\* The first frame beside the pillar took no event and 40 more on the
\* accumulator, which reached the interval of 80: the T could not go down
\* onto the pillar and was locked where it was, in that frame.
C16_Witness ==
  /\ pc = "clear"
  /\ frame = 0
  /\ nev = 0
  /\ fall_time = 0
  /\ running
  /\ locked_positions =
       PillarBoard @@ [k \in {<<5, 2>>, <<4, 3>>, <<5, 3>>, <<6, 3>>} |-> "purple"]

\* C17: once a quit intent has been processed, the rest of its frame makes no
\* gravity step and starts no lock sequence.  Only a quit takes the frame to
\* its gravity test or its lock test with running false, so from there the
\* piece, the accumulator, change_piece, the locked cells, the score, the
\* level and the total of lines stay as they are and no row clear follows.
C17_QuitEndsQuietly ==
  [][(~running /\ pc \in {"gravity", "lock"}) =>
       /\ UNCHANGED <<current_piece, fall_time, change_piece, locked_positions,
                      next_piece, score, level, lines_cleared_total>>
       /\ pc' # "clear"]_vars

\* C18: every key of the locked cells is a cell of the grid.
C18_LockedKeysInGrid ==
  \A k \in DOMAIN locked_positions :
    /\ 0 <= k[1] /\ k[1] < COLS
    /\ 0 <= k[2] /\ k[2] < ROWS

\* The O has gone down the two-column well in the first frame: its four cells
\* were written, two rows were counted and the cells above them were shifted.
C18_Witness ==
  /\ pc = "tick"
  /\ frame = 1
  /\ cleared = 2
  /\ score = 300
  /\ DOMAIN locked_positions /= DOMAIN WellBoard
  /\ DOMAIN locked_positions =
       ((0 .. 9) \X {19}) \cup ((0 .. 7) \X {18})

\* Lines 151-155 followed for the rows ys of locked: some key popped from
\* row y is stored at a key of row y + 1 that is still in the dict.
RECURSIVE ShiftOverwrites(_, _)
ShiftOverwrites(locked, ys) ==
  IF ys = {} THEN FALSE
  ELSE LET y == CHOOSE a \in ys : \A b \in ys : b <= a
       IN  \/ \E k \in DOMAIN locked : k[2] = y /\ <<k[1], y + 1>> \in DOMAIN locked
           \/ ShiftOverwrites(MoveRowDown(locked, y), ys \ {y})

\* Lines 143-155 followed from row r: some shift of the call overwrites.
RECURSIVE ClearOverwrites(_, _, _)
ClearOverwrites(r, grid_, locked) ==
  IF r < 0 THEN FALSE
  ELSE IF RowFull(grid_, r)
    THEN \/ ShiftOverwrites(DeleteRow(locked, r),
                            {k[2] : k \in {q \in DOMAIN locked : q[2] < r}})
         \/ ClearOverwrites(r - 1, grid_, ShiftDown(DeleteRow(locked, r), r))
    ELSE ClearOverwrites(r - 1, grid_, locked)

\* C19: a lock sequence that writes cells writes none at a key that is
\* already locked, so exactly 4 keys are added before the row clear; and no
\* shift of clear_rows stores a cell at a key that is still occupied.
C19_NoOverwrite ==
  [][/\ (pc = "lock" /\ change_piece /\ ~HasCellAboveTop(current_piece)) =>
          /\ PieceCells \cap DOMAIN locked_positions = {}
          /\ Cardinality(DOMAIN locked_positions') =
               Cardinality(DOMAIN locked_positions) + 4
     /\ pc = "clear" =>
          ~ClearOverwrites(ROWS - 1, create_grid(locked_positions),
                           locked_positions)]_vars

\* The four cells of the upright I were written beside the three nine-cell
\* rows of CrossBoard and three rows were counted in one call, ten lines in
\* all; the row of eight, now of nine, was shifted down to row 18.
C19_Witness ==
  /\ pc = "tick"
  /\ frame = 1
  /\ cleared = 3
  /\ lines_cleared_total = 10
  /\ (1 .. 9) \X {18} \subseteq DOMAIN locked_positions
  /\ <<0, 18>> \notin DOMAIN locked_positions

====
